---- MODULE Spec2Model ----
(***************************************************************************)
(* A state-machine model of xrp2.py, a Streamlit script that is executed   *)
(* top to bottom on every refresh: normalise the symbol, fetch the 1m      *)
(* klines, fetch the live price, compute indicators and signals, compute   *)
(* the Fibonacci levels, fetch the order book, pick the top walls, classify*)
(* the liquidity pressure and build the liquidity wall path.               *)
(*                                                                         *)
(* Conventions of the model                                                *)
(*  - text is a sequence of one-character strings;                         *)
(*  - prices, quantities and notionals are integers (ticks); Python floats *)
(*    are read as exact numbers, so a comparison x > y * 1.1 is written    *)
(*    10 * x > 11 * y and a Fibonacci level is kept in thousandths;        *)
(*  - instants are whole minutes; kline row k carries BaseTime + k - 1;    *)
(*  - calls is the list of HTTP endpoints requested so far and ui the list *)
(*    of Streamlit elements emitted so far, in program order;              *)
(*  - a kline row keeps the columns the script reads (Time, High, Low,     *)
(*    Close);                                                              *)
(*  - ta's RSI and MACD are library code: the model keeps exactly when     *)
(*    their last value is NaN (too few candles) and lets a defined value   *)
(*    range over a few representative numbers.                             *)
(***************************************************************************)
EXTENDS Integers, Sequences, FiniteSets, TLC

VARIABLES
    pc,         \* position of the script
    raw,        \* st.text_input value
    coin,       \* clean_symbol(raw)
    klines,     \* what the klines request produced (the payload seen by get_klines)
    df,         \* the candle DataFrame: a sequence of rows, oldest first
    ticker,     \* what the ticker request produced: [ok, price]
    last,       \* current price
    sma20,      \* df["SMA20"].iloc[-1]   (NaN when undefined)
    rsi,        \* df["RSI"].iloc[-1]     (NaN when undefined)
    macdHist,   \* df["MACD_Hist"].iloc[-1] (NaN when undefined)
    signals,    \* the three signal strings
    fib,        \* the Fibonacci table, in dict order
    depth,      \* what the depth request produced
    bids, asks, \* parsed (price, quantity, notional) levels
    top_b, top_a,
    buy_liq, sell_liq,
    pressure,   \* the liquidity pressure element shown
    liq_path,   \* list of (dt, price, label)
    b_or_s, bidx, aidx,
    i,          \* loop variable of the path loop
    calls,      \* endpoints requested so far
    ui          \* Streamlit elements emitted so far

vars == <<pc, raw, coin, klines, df, ticker, last, sma20, rsi, macdHist, signals,
          fib, depth, bids, asks, top_b, top_a, buy_liq, sell_liq, pressure,
          liq_path, b_or_s, bidx, aidx, i, calls, ui>>

\* A float is a fraction num/den (den > 0) or NaN.
F(x) == [nan |-> FALSE, num |-> x, den |-> 1]
Frac(n, d) == [nan |-> FALSE, num |-> n, den |-> d]
NaN == [nan |-> TRUE, num |-> 0, den |-> 1]

\* Python's float comparisons: any comparison with NaN is False.
Gt(a, b) == ~a.nan /\ ~b.nan /\ a.num * b.den > b.num * a.den
Lt(a, b) == ~a.nan /\ ~b.nan /\ a.num * b.den < b.num * a.den
Le(a, b) == ~a.nan /\ ~b.nan /\ a.num * b.den <= b.num * a.den

----------------------------------------------------------------------------
\* Bounds of the model.
MaxLen == 5          \* longest enumerated input text
MaxCandles == 35     \* longest kline list the exchange returns in the model
MaxPad == 11         \* most filler levels on one side of an enumerated order book
MaxLiq == 120        \* largest wall sum enumerated for the pressure classifier
BaseTime == 1000     \* open time (in minutes) of the first kline row

----------------------------------------------------------------------------
\* Generic helpers on sequences.

RECURSIVE SumSeq(_)
SumSeq(s) == IF s = <<>> THEN 0 ELSE Head(s) + SumSeq(Tail(s))

Max(S) == CHOOSE x \in S : \A y \in S : y <= x
Min(S) == CHOOSE x \in S : \A y \in S : x <= y

\* Python s[:n]
Take(s, n) == SubSeq(s, 1, IF n < Len(s) THEN n ELSE Len(s))

\* Python s[-n:]
LastN(s, n) == SubSeq(s, IF Len(s) > n THEN Len(s) - n + 1 ELSE 1, Len(s))

----------------------------------------------------------------------------
\* clean_symbol (lines 14-19)

LowerLetters == <<"a","b","c","d","e","f","g","h","i","j","k","l","m",
                  "n","o","p","q","r","s","t","u","v","w","x","y","z">>
UpperLetters == <<"A","B","C","D","E","F","G","H","I","J","K","L","M",
                  "N","O","P","Q","R","S","T","U","V","W","X","Y","Z">>

IsSpace(c) == c = " "

\* str.upper(), one character
UpperChar(c) ==
    IF \E k \in 1..26 : LowerLetters[k] = c
    THEN UpperLetters[CHOOSE k \in 1..26 : LowerLetters[k] = c]
    ELSE c

\* str.upper()
Upper(s) == [k \in 1..Len(s) |-> UpperChar(s[k])]

\* str.strip()
Strip(s) ==
    IF \A k \in 1..Len(s) : IsSpace(s[k]) THEN <<>>
    ELSE LET a == Min({k \in 1..Len(s) : ~IsSpace(s[k])})
             b == Max({k \in 1..Len(s) : ~IsSpace(s[k])})
         IN SubSeq(s, a, b)

\* whether cut occurs in s at position k
OccursAt(s, cut, k) ==
    /\ k >= 1
    /\ k + Len(cut) - 1 <= Len(s)
    /\ SubSeq(s, k, k + Len(cut) - 1) = cut

\* `cut in s`
Contains(s, cut) == \E k \in 1..Len(s) : OccursAt(s, cut, k)

\* s.split(cut)[0]: what precedes the first occurrence of cut
SplitFirst(s, cut) ==
    IF Contains(s, cut)
    THEN SubSeq(s, 1, Min({k \in 1..Len(s) : OccursAt(s, cut, k)}) - 1)
    ELSE s

USDT == <<"U","S","D","T">>
Slash == <<"/">>
DefaultSymbol == <<"X","R","P">>

\* one round of the loop `for cut in ("USDT", "/")`
\* (faulty variant: only "USDT" is cut)
CutStepSkipsSlash(s, cut) == IF cut = USDT /\ Contains(s, cut) THEN SplitFirst(s, cut) ELSE s
CutStep(s, cut) == IF Contains(s, cut) THEN SplitFirst(s, cut) ELSE s

clean_symbol(r) ==
    LET s0 == Upper(Strip(r))
        s1 == CutStep(s0, USDT)
        s2 == CutStep(s1, Slash)
    IN IF s2 = <<>> THEN DefaultSymbol ELSE s2

----------------------------------------------------------------------------
\* call_binance (lines 27-32): the parsed JSON on status 200, None otherwise.
\* A response is [status, json]; status "raise" stands for requests.get or
\* r.json() raising. A JSON value is [type, rows, hasBids, hasAsks, bids, asks].

Json(type, rows, hb, ha, b, a) ==
    [type |-> type, rows |-> rows, hasBids |-> hb, hasAsks |-> ha, bids |-> b, asks |-> a]
NoneJson == Json("None", <<>>, FALSE, FALSE, <<>>, <<>>)
JsonList(rows) == Json("list", rows, FALSE, FALSE, <<>>, <<>>)
JsonDict(hb, ha, b, a) == Json("dict", <<>>, hb, ha, b, a)
NoResponse == [status |-> "none", json |-> NoneJson]

call_binance(r) == IF r.status = "200" THEN r.json ELSE NoneJson

\* bool(x) of a JSON value: None, {} and [] are falsy
Truthy(j) ==
    \/ j.type = "list" /\ j.rows # <<>>
    \/ j.type = "dict" /\ (j.hasBids \/ j.hasAsks)

----------------------------------------------------------------------------
\* get_klines (lines 45-55)

\* (faulty variant: a default row stands in for missing data)
get_klines_default_filled(data) ==
    IF data.type # "list" \/ data.rows = <<>>
    THEN <<[Time |-> BaseTime, High |-> 0, Low |-> 0, Close |-> 0]>>
    ELSE data.rows
get_klines(data) == IF data.type # "list" THEN <<>> ELSE data.rows

\* df.empty
Empty(d) == Len(d) = 0

\* The kline lists the exchange returns in the model: n rows, one minute apart,
\* the first and the last row of any shape, the rows between of the Filler shape.
Filler == [High |-> 101, Low |-> 99, Close |-> 100]
Shapes == {Filler,
           [High |-> 110, Low |-> 90, Close |-> 104],
           [High |-> 120, Low |-> 85, Close |-> 96]}

Row(k, shape) ==
    [Time |-> BaseTime + k - 1, High |-> shape.High, Low |-> shape.Low, Close |-> shape.Close]

Series(n, head, tail) ==
    [k \in 1..n |-> Row(k, IF k = n THEN tail ELSE IF k = 1 THEN head ELSE Filler)]

KlineLists == {Series(n, h, t) : n \in 0..MaxCandles, h \in Shapes, t \in Shapes}

KlineResponses ==
    {[status |-> "raise", json |-> NoneJson],
     [status |-> "429", json |-> NoneJson],
     [status |-> "200", json |-> JsonDict(FALSE, FALSE, <<>>, <<>>)]}
    \cup {[status |-> "200", json |-> JsonList(rows)] : rows \in KlineLists}

\* lines 9-40: the text box and clean_symbol
Normalize ==
    /\ pc = "input"
    /\ coin' = clean_symbol(raw)
    /\ ui' = Append(ui, "caption")
    /\ pc' = "klines"
    /\ UNCHANGED <<raw, klines, df, ticker, last, sma20, rsi, macdHist, signals, fib,
                   depth, bids, asks, top_b, top_a, buy_liq, sell_liq, pressure,
                   liq_path, b_or_s, bidx, aidx, i, calls>>

\* lines 57-60: df = get_klines(PAIR); stop with an error when df is empty
GetKlines ==
    /\ pc = "klines"
    /\ \E r \in KlineResponses :
        /\ klines' = r
        /\ calls' = Append(calls, "klines")
        /\ IF r.status = "raise"
           THEN /\ pc' = "crashed"
                /\ ui' = Append(ui, "exception")
                /\ df' = df
           ELSE LET d == get_klines(call_binance(r))
                    warned == IF r.status = "200" THEN ui ELSE Append(ui, "warning: Binance response")
                IN /\ df' = d
                   /\ IF Empty(d)
                      THEN /\ ui' = warned \o <<"error: no rows">>
                           /\ pc' = "stopped"
                      ELSE /\ ui' = warned
                           /\ pc' = "live"
    /\ UNCHANGED <<raw, coin, ticker, last, sma20, rsi, macdHist, signals, fib,
                   depth, bids, asks, top_b, top_a, buy_liq, sell_liq, pressure,
                   liq_path, b_or_s, bidx, aidx, i>>

----------------------------------------------------------------------------
\* Live price (lines 65-74)

\* prices the ticker may report
LivePrices == {95, 100, 105}

\* a failed ticker request (an exception, a bad status, a body with no price)
\* carries no price
NoTicker == [ok |-> FALSE, price |-> 0]
TickerResponses == {NoTicker} \cup {[ok |-> TRUE, price |-> x] : x \in LivePrices}

LastClose(d) == d[Len(d)].Close

\* the value of `last` after the try/except
live_price(ok, price, d) == IF ok THEN price ELSE LastClose(d)

LivePrice ==
    /\ pc = "live"
    /\ \E t \in TickerResponses :
        /\ ticker' = t
        /\ last' = live_price(t.ok, t.price, df)
        /\ ui' = (IF t.ok THEN ui ELSE Append(ui, "warning: live price failed")) \o <<"metric">>
    /\ calls' = Append(calls, "ticker")
    /\ pc' = "indicators"
    /\ UNCHANGED <<raw, coin, klines, df, sma20, rsi, macdHist, signals, fib,
                   depth, bids, asks, top_b, top_a, buy_liq, sell_liq, pressure,
                   liq_path, b_or_s, bidx, aidx, i>>

----------------------------------------------------------------------------
\* Technical indicators and signals (lines 79-91)

SmaWindow == 20      \* ta.trend.sma_indicator(df["Close"], 20)
RsiWindow == 14      \* ta.momentum.rsi(df["Close"], 14)
MacdSlow == 26       \* ta.trend.macd default window_slow
MacdSign == 9        \* ta.trend.macd_signal default window_sign

Closes(d) == [k \in 1..Len(d) |-> d[k].Close]

\* last value of ta.trend.sma_indicator(close, w): rolling(w, min_periods=w).mean()
SmaLast(d, w) ==
    IF Len(d) < w THEN NaN ELSE Frac(SumSeq(LastN(Closes(d), w)), w)

\* ta.momentum.rsi: ewm(alpha=1/w, min_periods=w) over the up/down moves, whose
\* first entry is 0, so the last value is NaN exactly when there are fewer than w rows
RsiDefined(d) == Len(d) >= RsiWindow
RsiValues == {29, 30, 70, 71}

\* macd - macd_signal: the slow EMA needs 26 rows, the signal EMA 9 values of it
MacdHistDefined(d) == Len(d) >= MacdSlow + MacdSign - 1
MacdHistValues == {0, 1}

RsiSignal(r) ==
    IF Lt(r, F(30)) THEN "RSI: BUY" ELSE IF Gt(r, F(70)) THEN "RSI: SELL" ELSE "RSI: HOLD"

\* (faulty variant: written as `not (last <= sma)`, which is True for NaN)
SmaSignalNanBuys(price, sma) == IF ~Le(F(price), sma) THEN "SMA: BUY" ELSE "SMA: SELL"
SmaSignal(price, sma) == IF Gt(F(price), sma) THEN "SMA: BUY" ELSE "SMA: SELL"

MacdSignal(h) == IF Gt(h, F(0)) THEN "MACD: BUY" ELSE "MACD: SELL"

Indicators ==
    /\ pc = "indicators"
    /\ sma20' = SmaLast(df, SmaWindow)
    /\ \E r \in RsiValues :
        /\ RsiDefined(df) \/ r = Min(RsiValues)
        /\ rsi' = IF RsiDefined(df) THEN F(r) ELSE NaN
    /\ \E h \in MacdHistValues :
        /\ MacdHistDefined(df) \/ h = Min(MacdHistValues)
        /\ macdHist' = IF MacdHistDefined(df) THEN F(h) ELSE NaN
    /\ signals' = <<RsiSignal(rsi'), SmaSignal(last, sma20'), MacdSignal(macdHist')>>
    /\ ui' = Append(ui, "signals")
    /\ pc' = "fib"
    /\ UNCHANGED <<raw, coin, klines, df, ticker, last, fib,
                   depth, bids, asks, top_b, top_a, buy_liq, sell_liq, pressure,
                   liq_path, b_or_s, bidx, aidx, i, calls>>

----------------------------------------------------------------------------
\* Fibonacci (lines 96-105). A level is kept in thousandths of a tick.

FibWindow == 30      \* sub = df[-30:]

FibLevelsOf(hi, lo) ==
    LET diff == hi - lo
    IN <<[Level |-> "0%", Price |-> 1000 * lo],
         [Level |-> "23.6%", Price |-> 1000 * hi - diff * 236],
         [Level |-> "38.2%", Price |-> 1000 * hi - diff * 382],
         [Level |-> "50%", Price |-> 1000 * hi - diff * 500],
         [Level |-> "61.8%", Price |-> 1000 * hi - diff * 618],
         [Level |-> "78.6%", Price |-> 1000 * hi - diff * 786],
         [Level |-> "100%", Price |-> 1000 * hi]>>

\* (faulty variant: no 30-candle window)
FibOfWholeSeries(d) ==
    FibLevelsOf(Max({d[k].High : k \in 1..Len(d)}), Min({d[k].Low : k \in 1..Len(d)}))
FibOf(d) ==
    LET sub == LastN(d, FibWindow)
        hi == Max({sub[k].High : k \in 1..Len(sub)})
        lo == Min({sub[k].Low : k \in 1..Len(sub)})
    IN FibLevelsOf(hi, lo)

Fib ==
    /\ pc = "fib"
    /\ fib' = FibOf(df)
    /\ ui' = Append(ui, "fib levels")
    /\ pc' = "depth"
    /\ UNCHANGED <<raw, coin, klines, df, ticker, last, sma20, rsi, macdHist, signals,
                   depth, bids, asks, top_b, top_a, buy_liq, sell_liq, pressure,
                   liq_path, b_or_s, bidx, aidx, i, calls>>

----------------------------------------------------------------------------
\* Order book (lines 110-123)

TopN == 10           \* [:10]

\* (float(p), float(q), float(p) * float(q)) for p, q in ...
ParseLevels(levels) ==
    [k \in 1..Len(levels) |->
        [price |-> levels[k].p, qty |-> levels[k].q, notional |-> levels[k].p * levels[k].q]]

\* call_binance(...) or {}
EmptyDict == JsonDict(FALSE, FALSE, <<>>, <<>>)
ObOf(j) == IF Truthy(j) THEN j ELSE EmptyDict

\* ob.get("bids", []), ob.get("asks", [])
GetBids(ob) == IF ob.hasBids THEN ob.bids ELSE <<>>
GetAsks(ob) == IF ob.hasAsks THEN ob.asks ELSE <<>>

\* sorted(..., key=lambda z: z[2], reverse=True): a stable sort, so levels of equal
\* notional keep their input order. Elements are inserted in input order, each
\* behind every element whose notional is at least its own.
InsertDesc(sorted, x) ==
    LET k == Cardinality({j \in 1..Len(sorted) : sorted[j].notional >= x.notional})
    IN SubSeq(sorted, 1, k) \o <<x>> \o SubSeq(sorted, k + 1, Len(sorted))

RECURSIVE SortDesc(_)
SortDesc(s) ==
    IF s = <<>> THEN <<>>
    ELSE InsertDesc(SortDesc(SubSeq(s, 1, Len(s) - 1)), s[Len(s)])

\* (faulty variant: a bid priced at px is kept)
BelowOrAtPx(levels, px) == SelectSeq(levels, LAMBDA x : x.price <= px)
BelowPx(levels, px) == SelectSeq(levels, LAMBDA x : x.price < px)
AbovePx(levels, px) == SelectSeq(levels, LAMBDA x : x.price > px)

TopBids(levels, px) == Take(SortDesc(BelowPx(levels, px)), TopN)
TopAsks(levels, px) == Take(SortDesc(AbovePx(levels, px)), TopN)

\* Order books of the whole-run specification.
Lv(p, q) == [p |-> p, q |-> q]
BookA == JsonDict(TRUE, TRUE,
                  <<Lv(94, 2), Lv(99, 1), Lv(104, 3)>>,
                  <<Lv(96, 1), Lv(101, 2), Lv(111, 1)>>)
BookB == JsonDict(TRUE, TRUE,
                  <<Lv(99, 5)>>,
                  <<Lv(101, 1), Lv(106, 4), Lv(108, 2)>>)
BookBidsOnly == JsonDict(TRUE, FALSE, <<Lv(94, 2), Lv(99, 1)>>, <<>>)

DepthResponses ==
    {[status |-> "raise", json |-> NoneJson],
     [status |-> "429", json |-> NoneJson],
     [status |-> "200", json |-> EmptyDict],
     [status |-> "200", json |-> JsonList(Series(1, Filler, Filler))],
     [status |-> "200", json |-> BookA],
     [status |-> "200", json |-> BookB],
     [status |-> "200", json |-> BookBidsOnly]}

\* lines 110-112
FetchDepth ==
    /\ pc = "depth"
    /\ \E r \in DepthResponses :
        /\ depth' = r
        /\ calls' = Append(calls, "depth")
        /\ IF r.status = "raise" \/ (r.status = "200" /\ ObOf(r.json).type = "list")
           THEN \* requests raising, or a JSON list, which has no .get
                /\ pc' = "crashed"
                /\ ui' = Append(ui, "exception")
                /\ UNCHANGED <<bids, asks>>
           ELSE LET ob == ObOf(call_binance(r))
                IN /\ bids' = ParseLevels(GetBids(ob))
                   /\ asks' = ParseLevels(GetAsks(ob))
                   /\ ui' = IF r.status = "200" THEN ui
                            ELSE Append(ui, "warning: Binance response")
                   /\ pc' = "walls"
    /\ UNCHANGED <<raw, coin, klines, df, ticker, last, sma20, rsi, macdHist, signals, fib,
                   top_b, top_a, buy_liq, sell_liq, pressure,
                   liq_path, b_or_s, bidx, aidx, i>>

\* lines 113-123 (px = last)
Walls ==
    /\ pc = "walls"
    /\ top_b' = TopBids(bids, last)
    /\ top_a' = TopAsks(asks, last)
    /\ ui' = ui \o <<"buy walls", "sell walls">>
    /\ pc' = "sums"
    /\ UNCHANGED <<raw, coin, klines, df, ticker, last, sma20, rsi, macdHist, signals, fib,
                   depth, bids, asks, buy_liq, sell_liq, pressure,
                   liq_path, b_or_s, bidx, aidx, i, calls>>

----------------------------------------------------------------------------
\* Liquidity pressure (lines 125-134)

Notionals(walls) == [k \in 1..Len(walls) |-> walls[k].notional]

SumWalls ==
    /\ pc = "sums"
    /\ buy_liq' = SumSeq(Notionals(top_b))
    /\ sell_liq' = SumSeq(Notionals(top_a))
    /\ pc' = "pressure"
    /\ UNCHANGED <<raw, coin, klines, df, ticker, last, sma20, rsi, macdHist, signals, fib,
                   depth, bids, asks, top_b, top_a, pressure,
                   liq_path, b_or_s, bidx, aidx, i, calls, ui>>

\* x > y * 1.1
Exceeds(x, y) == 10 * x > 11 * y

\* (faulty variant: >= in place of >)
PressureAtLeast(buy, sell) ==
    IF 10 * buy >= 11 * sell THEN "More buying"
    ELSE IF 10 * sell >= 11 * buy THEN "More selling"
    ELSE "Balanced"
PressureOf(buy, sell) ==
    IF Exceeds(buy, sell) THEN "More buying"
    ELSE IF Exceeds(sell, buy) THEN "More selling"
    ELSE "Balanced"

Classify ==
    /\ pc = "pressure"
    /\ pressure' = PressureOf(buy_liq, sell_liq)
    /\ ui' = Append(ui, "pressure")
    /\ pc' = "path"
    /\ UNCHANGED <<raw, coin, klines, df, ticker, last, sma20, rsi, macdHist, signals, fib,
                   depth, bids, asks, top_b, top_a, buy_liq, sell_liq,
                   liq_path, b_or_s, bidx, aidx, i, calls>>

----------------------------------------------------------------------------
\* Liquidity wall path (lines 139-154)

PathSteps == 10      \* range(1, 11)
StepMinutes == 5     \* pd.Timedelta(minutes=i * 5)

LatestTime(d) == d[Len(d)].Time

Point(dt, price, label) == [dt |-> dt, price |-> price, label |-> label]

\* lines 139-141
PathInit ==
    /\ pc = "path"
    /\ liq_path' = <<Point(LatestTime(df), last, "Current")>>
    /\ b_or_s' = TRUE
    /\ bidx' = 0
    /\ aidx' = 0
    /\ i' = 1
    /\ pc' = "loop"
    /\ UNCHANGED <<raw, coin, klines, df, ticker, last, sma20, rsi, macdHist, signals, fib,
                   depth, bids, asks, top_b, top_a, buy_liq, sell_liq, pressure, calls, ui>>

\* the timestamp of step k
\* (faulty variant: the step number is dropped)
StepTimeUnscaled(d, k) == LatestTime(d) + StepMinutes
StepTime(d, k) == LatestTime(d) + k * StepMinutes

\* (faulty variant: the turn of an exhausted side is given to the other side)
PathStepFillsTurn ==
    /\ pc = "loop"
    /\ i <= PathSteps
    /\ LET dt == StepTime(df, i)
           bidTurn == (b_or_s /\ bidx < Len(top_b)) \/ (~b_or_s /\ aidx >= Len(top_a))
       IN IF bidTurn /\ bidx < Len(top_b)
          THEN /\ liq_path' = Append(liq_path, Point(dt, top_b[bidx + 1].price, "Buy"))
               /\ bidx' = bidx + 1
               /\ aidx' = aidx
          ELSE IF ~bidTurn /\ aidx < Len(top_a)
          THEN /\ liq_path' = Append(liq_path, Point(dt, top_a[aidx + 1].price, "Sell"))
               /\ aidx' = aidx + 1
               /\ bidx' = bidx
          ELSE UNCHANGED <<liq_path, bidx, aidx>>
    /\ b_or_s' = ~b_or_s
    /\ i' = i + 1
    /\ UNCHANGED <<pc, raw, coin, klines, df, ticker, last, sma20, rsi, macdHist, signals,
                   fib, depth, bids, asks, top_b, top_a, buy_liq, sell_liq, pressure,
                   calls, ui>>

\* one iteration of the loop, lines 142-154
PathStep ==
    /\ pc = "loop"
    /\ i <= PathSteps
    /\ LET dt == StepTime(df, i)
       IN IF b_or_s /\ bidx < Len(top_b)
          THEN /\ liq_path' = Append(liq_path, Point(dt, top_b[bidx + 1].price, "Buy"))
               /\ bidx' = bidx + 1
               /\ aidx' = aidx
          ELSE IF ~b_or_s /\ aidx < Len(top_a)
          THEN /\ liq_path' = Append(liq_path, Point(dt, top_a[aidx + 1].price, "Sell"))
               /\ aidx' = aidx + 1
               /\ bidx' = bidx
          ELSE UNCHANGED <<liq_path, bidx, aidx>>
    /\ b_or_s' = ~b_or_s
    /\ i' = i + 1
    /\ UNCHANGED <<pc, raw, coin, klines, df, ticker, last, sma20, rsi, macdHist, signals,
                   fib, depth, bids, asks, top_b, top_a, buy_liq, sell_liq, pressure,
                   calls, ui>>

\* lines 159-197: the loop is over; chart and indicator panels
Chart ==
    /\ pc = "loop"
    /\ i > PathSteps
    /\ ui' = ui \o <<"chart", "rsi chart", "macd chart">>
    /\ pc' = "done"
    /\ UNCHANGED <<raw, coin, klines, df, ticker, last, sma20, rsi, macdHist, signals, fib,
                   depth, bids, asks, top_b, top_a, buy_liq, sell_liq, pressure,
                   liq_path, b_or_s, bidx, aidx, i, calls>>

----------------------------------------------------------------------------
\* The whole run.

DefaultText == <<"x", "r", "p">>      \* st.text_input(..., "xrp")

InitRest ==
    /\ coin = <<>>
    /\ klines = NoResponse
    /\ df = <<>>
    /\ ticker = NoTicker
    /\ last = 0
    /\ sma20 = NaN
    /\ rsi = NaN
    /\ macdHist = NaN
    /\ signals = <<>>
    /\ fib = <<>>
    /\ depth = NoResponse
    /\ bids = <<>>
    /\ asks = <<>>
    /\ top_b = <<>>
    /\ top_a = <<>>
    /\ buy_liq = 0
    /\ sell_liq = 0
    /\ pressure = "none"
    /\ liq_path = <<>>
    /\ b_or_s = TRUE
    /\ bidx = 0
    /\ aidx = 0
    /\ i = 0
    /\ calls = <<>>
    /\ ui = <<>>

Init ==
    /\ pc = "input"
    /\ raw = DefaultText
    /\ InitRest

Next ==
    \/ Normalize
    \/ GetKlines
    \/ LivePrice
    \/ Indicators
    \/ Fib
    \/ FetchDepth
    \/ Walls
    \/ SumWalls
    \/ Classify
    \/ PathInit
    \/ PathStep
    \/ Chart

Spec == Init /\ [][Next]_vars

----------------------------------------------------------------------------
\* clean_symbol over every short text: the symbol box may hold any text.

TextAlphabet == {" ", "/", "u", "S", "d", "T"}
Examples ==
    {<<"x", "r", "p", "U", "S", "D", "T", " ">>,
     <<" ", "b", "t", "c", "/", "u", "s", "d", "t">>,
     <<>>,
     <<"e", "t", "h">>}
Texts == UNION {[1..n -> TextAlphabet] : n \in 0..MaxLen} \cup Examples

InitSymbol ==
    /\ pc = "input"
    /\ raw \in Texts
    /\ InitRest

NextSymbol == Normalize

SpecSymbol == InitSymbol /\ [][NextSymbol]_vars

----------------------------------------------------------------------------
\* The order-book half of the run over a family of order books: the script has
\* one candle, the ticker answered px, and the depth request returned the book.

BookPrices == {97, 100}

BidFiller(k) == Lv(100 - k, 1 + (k % 3))
AskFiller(k) == Lv(100 + k, 1 + (k % 3))
FreeBids == {Lv(101, 50), Lv(100, 50), Lv(66, 3), Lv(50, 1)}
FreeAsks == {Lv(99, 50), Lv(51, 4)}

Opt(S) == {<<>>} \cup {<<x>> : x \in S}

BidLists ==
    {h \o [k \in 1..m |-> BidFiller(k)] \o t :
        h \in Opt(FreeBids), t \in Opt(FreeBids), m \in 0..MaxPad}
AskLists ==
    {h \o [k \in 1..m |-> AskFiller(k)] : h \in Opt(FreeAsks), m \in 0..MaxPad}

OneCandle == Series(1, Filler, Filler)

InitBook ==
    /\ pc = "walls"
    /\ raw = DefaultText
    /\ coin = clean_symbol(DefaultText)
    /\ klines = [status |-> "200", json |-> JsonList(OneCandle)]
    /\ df = OneCandle
    /\ last \in BookPrices
    /\ ticker = [ok |-> TRUE, price |-> last]
    /\ sma20 = NaN
    /\ rsi = NaN
    /\ macdHist = NaN
    /\ signals = <<RsiSignal(NaN), SmaSignal(last, NaN), MacdSignal(NaN)>>
    /\ fib = FibOf(OneCandle)
    /\ \E b \in BidLists : \E a \in AskLists :
        /\ depth = [status |-> "200", json |-> JsonDict(TRUE, TRUE, b, a)]
        /\ bids = ParseLevels(b)
        /\ asks = ParseLevels(a)
    /\ top_b = <<>>
    /\ top_a = <<>>
    /\ buy_liq = 0
    /\ sell_liq = 0
    /\ pressure = "none"
    /\ liq_path = <<>>
    /\ b_or_s = TRUE
    /\ bidx = 0
    /\ aidx = 0
    /\ i = 0
    /\ calls = <<"klines", "ticker", "depth">>
    /\ ui = <<"caption", "metric", "signals", "fib levels">>

NextBook ==
    \/ Walls
    \/ SumWalls
    \/ Classify
    \/ PathInit
    \/ PathStep
    \/ Chart

SpecBook == InitBook /\ [][NextBook]_vars

----------------------------------------------------------------------------
\* The pressure classifier over every pair of wall sums up to MaxLiq.

InitPressure ==
    /\ pc = "pressure"
    /\ raw = DefaultText
    /\ buy_liq \in 0..MaxLiq
    /\ sell_liq \in 0..MaxLiq
    /\ coin = <<>>
    /\ klines = NoResponse
    /\ df = <<>>
    /\ ticker = NoTicker
    /\ last = 0
    /\ sma20 = NaN
    /\ rsi = NaN
    /\ macdHist = NaN
    /\ signals = <<>>
    /\ fib = <<>>
    /\ depth = NoResponse
    /\ bids = <<>>
    /\ asks = <<>>
    /\ top_b = <<>>
    /\ top_a = <<>>
    /\ pressure = "none"
    /\ liq_path = <<>>
    /\ b_or_s = TRUE
    /\ bidx = 0
    /\ aidx = 0
    /\ i = 0
    /\ calls = <<>>
    /\ ui = <<>>

NextPressure == Classify

SpecPressure == InitPressure /\ [][NextPressure]_vars

----------------------------------------------------------------------------
\* Properties of the run.

Emitted(x) == \E k \in 1..Len(ui) : ui[k] = x
Called(x) == \E k \in 1..Len(calls) : calls[k] = x

\* the klines request was made and gave get_klines no rows: a status other than
\* 200 (call_binance returns None), a JSON value that is no list, or an empty list
KlinesNoData ==
    \/ klines.status = "429"
    \/ klines.status = "200" /\ (klines.json.type # "list" \/ klines.json.rows = <<>>)

\* nothing after the klines section has run
NothingDownstream ==
    /\ calls = <<"klines">>
    /\ ~Emitted("metric")
    /\ sma20 = NaN /\ rsi = NaN /\ macdHist = NaN
    /\ signals = <<>> /\ ~Emitted("signals")
    /\ fib = <<>> /\ ~Emitted("fib levels")
    /\ ~Called("ticker") /\ ~Called("depth")
    /\ liq_path = <<>>

\* C1: whenever the kline fetch yields a non-list payload (a failed request
\* included) or a list with zero rows, the candle series is empty and the run
\* stops there with a reported error: the live price is never fetched, no
\* indicator, signal or retracement level is computed, the depth endpoint is never
\* called and no liquidity path point is built. A request that raises ends the
\* run the same way, with the exception reported.
C1_NoDataStops ==
    /\ KlinesNoData =>
        /\ df = <<>>
        /\ pc = "stopped"
        /\ ui[Len(ui)] = "error: no rows"
        /\ NothingDownstream
    /\ klines.status = "raise" =>
        /\ df = <<>>
        /\ pc = "crashed"
        /\ ui[Len(ui)] = "exception"
        /\ NothingDownstream

\* an empty JSON list was returned with status 200 and the run stopped
C1_Witness ==
    /\ klines.status = "200"
    /\ klines.json.type = "list"
    /\ klines.json.rows = <<>>
    /\ pc = "stopped"

\* the depth request was made and gave no order book: a status other than 200,
\* or a JSON object without bids and asks
DepthNoData ==
    \/ depth.status = "429"
    \/ depth.status = "200" /\ depth.json.type = "dict"
          /\ GetBids(depth.json) = <<>> /\ GetAsks(depth.json) = <<>>

\* C2: if the order-book depth fetch yields an empty or malformed result, the run
\* ends in a terminal DataUnavailable outcome distinguishable from success and no
\* wall lists, no pressure classification and no liquidity path are emitted.
C2_DepthNoDataStops ==
    DepthNoData =>
        /\ pc # "done"
        /\ ~Emitted("buy walls") /\ ~Emitted("sell walls")
        /\ ~Emitted("pressure") /\ pressure = "none"
        /\ liq_path = <<>>

\* C3: for every non-empty candle series shorter than an indicator's window (fewer
\* than 20 candles for SMA20, fewer than 15 for RSI14, fewer than 26 for the MACD
\* histogram) the run fails fast with a data-insufficiency error and emits no
\* signal for that indicator.
C3_ShortSeriesFailsFast ==
    (df # <<>> /\ pc \notin {"klines", "live", "indicators"}) =>
        /\ Len(df) < 20 => signals = <<>> \/ signals[2] \notin {"SMA: BUY", "SMA: SELL"}
        /\ Len(df) < 15 => signals = <<>> \/ signals[1] \notin {"RSI: BUY", "RSI: SELL", "RSI: HOLD"}
        /\ Len(df) < 26 => signals = <<>> \/ signals[3] \notin {"MACD: BUY", "MACD: SELL"}
        /\ Len(df) < 26 => ~Emitted("signals") /\ pc \in {"stopped", "crashed"}

\* the Close of the last candle against the mean of the last 20 closes
LastCloseAboveSma == Len(df) >= 20 /\ 20 * LastClose(df) > SumSeq(LastN(Closes(df), 20))

\* the current price against the mean of the last 20 closes
PriceAboveSma == Len(df) >= 20 /\ 20 * last > SumSeq(LastN(Closes(df), 20))

\* C7 as stated: the SMA signal is BUY if and only if the Close of the last candle
\* is strictly greater than the last SMA20 value, and SELL otherwise, whether the
\* live-price fetch succeeded or fell back to the last candle close.
C7_SmaFromLastClose ==
    signals # <<>> =>
        /\ signals[2] \in {"SMA: BUY", "SMA: SELL"}
        /\ signals[2] = "SMA: BUY" <=> LastCloseAboveSma

\* C7 as amended: the SMA signal is BUY if and only if the series has at least 20
\* candles and the current price is strictly greater than the mean of the last 20
\* closes, and SELL otherwise; the current price is the ticker price when the
\* live-price fetch succeeded and the Close of the last candle when it failed.
C7_SmaFromCurrentPrice ==
    signals # <<>> =>
        /\ last = IF ticker.ok THEN ticker.price ELSE LastClose(df)
        /\ signals[2] \in {"SMA: BUY", "SMA: SELL"}
        /\ signals[2] = "SMA: BUY" <=> PriceAboveSma

\* the ticker answered with a price above the SMA while the last close is not
C7_Witness ==
    /\ signals # <<>>
    /\ ticker.ok
    /\ PriceAboveSma
    /\ ~LastCloseAboveSma
    /\ signals[2] = "SMA: BUY"

\* the rows of df that df[-30:] keeps
FibRows == {k \in 1..Len(df) : k > Len(df) - 30}
WindowHigh == Max({df[k].High : k \in FibRows})
WindowLow == Min({df[k].Low : k \in FibRows})
FibPercentTimes10 == <<0, 236, 382, 500, 618, 786, 1000>>

\* C9: the retracement levels are computed over the last 30 candles (all candles
\* when fewer exist) with hi the highest High and lo the lowest Low of that window:
\* "0%" is lo, "100%" is hi, each level p of 23.6, 38.2, 50, 61.8, 78.6 is
\* hi - (hi - lo) * p / 100, and exactly these 7 levels are emitted in that order
\* (hi = 110, lo = 90 gives 90, 105.28, 102.36, 100, 97.64, 94.28, 110).
C9_FibLevels ==
    fib # <<>> =>
        LET hi == WindowHigh
            lo == WindowLow
        IN /\ [k \in 1..Len(fib) |-> fib[k].Level]
                 = <<"0%", "23.6%", "38.2%", "50%", "61.8%", "78.6%", "100%">>
           /\ fib[1].Price = 1000 * lo
           /\ fib[7].Price = 1000 * hi
           /\ \A k \in 2..6 : fib[k].Price = 1000 * hi - (hi - lo) * FibPercentTimes10[k]
           /\ (hi = 110 /\ lo = 90) =>
                 [k \in 1..Len(fib) |-> fib[k].Price]
                    = <<90000, 105280, 102360, 100000, 97640, 94280, 110000>>

\* 31 candles whose first, outside the window, has the highest High and the lowest
\* Low of the series, and the window has hi = 110 and lo = 90
C9_Witness ==
    /\ fib # <<>>
    /\ Len(df) = 31
    /\ df[1].High = 120
    /\ df[1].Low = 85
    /\ fib[1].Price = 90000
    /\ fib[7].Price = 110000

----------------------------------------------------------------------------
\* Properties of the order book, the pressure class and the path.

MinOf(a, b) == IF a < b THEN a ELSE b

\* the input positions of the levels on the right side of px
QualifyingBids == {j \in 1..Len(bids) : bids[j].price < last}
QualifyingAsks == {j \in 1..Len(asks) : asks[j].price > last}

\* the place of input position j among the qualifying positions Q of levels:
\* larger notional first, equal notional in input order
RankIn(levels, Q, j) ==
    1 + Cardinality({k \in Q : \/ levels[k].notional > levels[j].notional
                               \/ levels[k].notional = levels[j].notional /\ k < j})

\* top is the first 10 of the qualifying levels in rank order
IsTopOf(top, levels, Q) ==
    /\ Len(top) = MinOf(10, Cardinality(Q))
    /\ \A j \in Q : RankIn(levels, Q, j) <= 10 => top[RankIn(levels, Q, j)] = levels[j]
    /\ \A j \in Q : RankIn(levels, Q, j) > 10 =>
          \A r \in 1..Len(top) : levels[j].notional <= top[r].notional

NonIncreasing(top) ==
    \A r \in 1..Len(top) - 1 : top[r].notional >= top[r + 1].notional

\* C5: the top-bid list holds only levels priced strictly below px and the top-ask
\* list only levels priced strictly above px, whatever their notional; each list
\* has at most 10 entries, is ordered by notional non-increasing with levels of
\* equal notional in input order, and no excluded qualifying level has a notional
\* greater than a selected one.
C5_TopWalls ==
    pc \in {"sums", "pressure", "path", "loop", "done"} =>
        /\ \A r \in 1..Len(top_b) : top_b[r].price < last
        /\ \A r \in 1..Len(top_a) : top_a[r].price > last
        /\ \A r \in 1..Len(top_b) : top_b[r].notional = top_b[r].price * top_b[r].qty
        /\ \A r \in 1..Len(top_a) : top_a[r].notional = top_a[r].price * top_a[r].qty
        /\ Len(top_b) <= 10 /\ Len(top_a) <= 10
        /\ NonIncreasing(top_b) /\ NonIncreasing(top_a)
        /\ pc = "sums" =>
              /\ IsTopOf(top_b, bids, QualifyingBids)
              /\ IsTopOf(top_a, asks, QualifyingAsks)

\* the first bid is priced above px and has the largest notional of the book, more
\* than 10 bids qualify, and two selected bids have the same notional
C5_Witness ==
    /\ pc = "sums"
    /\ bids # <<>>
    /\ bids[1].price > last
    /\ \A j \in 2..Len(bids) : bids[j].notional < bids[1].notional
    /\ Cardinality(QualifyingBids) > 10
    /\ Len(top_b) = 10
    /\ \E r \in 1..9 : top_b[r].notional = top_b[r + 1].notional

\* C6: exactly one pressure class is produced for a pair of non-negative wall
\* sums: "more buying" if and only if buy_liq > 1.1 * sell_liq; otherwise "more
\* selling" if and only if sell_liq > 1.1 * buy_liq; otherwise "balanced". The two
\* imbalance conditions never hold together; 110 against 100 is balanced, 111
\* against 100 is more buying, and both sums zero is balanced.
C6_Pressure ==
    pc \in {"path", "loop", "done"} =>
        LET moreBuy == 10 * buy_liq > 11 * sell_liq
            moreSell == 10 * sell_liq > 11 * buy_liq
        IN /\ pressure \in {"More buying", "More selling", "Balanced"}
           /\ ~(moreBuy /\ moreSell)
           /\ pressure = "More buying" <=> moreBuy
           /\ pressure = "More selling" <=> (~moreBuy /\ moreSell)
           /\ pressure = "Balanced" <=> (~moreBuy /\ ~moreSell)
           /\ (buy_liq = 110 /\ sell_liq = 100) => pressure = "Balanced"
           /\ (buy_liq = 111 /\ sell_liq = 100) => pressure = "More buying"
           /\ (buy_liq = 0 /\ sell_liq = 0) => pressure = "Balanced"

\* 110 against 100 has been classified
C6_Witness ==
    /\ pc = "path"
    /\ buy_liq = 110
    /\ sell_liq = 100
    /\ pressure = "Balanced"

\* the points of one side, in path order
PointsOf(label) == SelectSeq(liq_path, LAMBDA pt : pt.label = label)

\* iterations of the loop completed so far
StepsDone == i - 1

\* C4: turns alternate strictly, starting with the bid side (odd steps are bid
\* turns, even steps ask turns); at a step a point is emitted if and only if the
\* side whose turn it is still has an unconsumed wall, and it is that side's next
\* wall in rank order; a turn of an exhausted side emits nothing. After K steps
\* the path holds min(|bids|, ceil(K/2)) Buy points and min(|asks|, floor(K/2))
\* Sell points, at most 1 + K points in all (3 bid walls, 1 ask wall, K = 5:
\* exactly one Sell point).
C4_Alternation ==
    pc \in {"loop", "done"} =>
        LET K == StepsDone
            buys == PointsOf("Buy")
            sells == PointsOf("Sell")
        IN /\ b_or_s = (K % 2 = 0)
           /\ Len(buys) = MinOf(Len(top_b), (K + 1) \div 2)
           /\ Len(sells) = MinOf(Len(top_a), K \div 2)
           /\ bidx = Len(buys) /\ aidx = Len(sells)
           /\ Len(liq_path) = 1 + Len(buys) + Len(sells)
           /\ Len(liq_path) <= 1 + K
           /\ \A m \in 1..Len(buys) :
                 buys[m] = Point(LatestTime(df) + (2 * m - 1) * 5, top_b[m].price, "Buy")
           /\ \A m \in 1..Len(sells) :
                 sells[m] = Point(LatestTime(df) + 2 * m * 5, top_a[m].price, "Sell")
           /\ (Len(top_b) = 3 /\ Len(top_a) = 1 /\ K = 5) => Len(sells) = 1

\* 3 bid walls, 1 ask wall, 5 steps done: one Sell point, the ask turn of step 4
\* was skipped
C4_Witness ==
    /\ pc = "loop"
    /\ Len(top_b) = 3
    /\ Len(top_a) = 1
    /\ StepsDone = 5
    /\ Len(PointsOf("Sell")) = 1
    /\ Len(liq_path) = 5

\* C10: during and after the construction of the path, the path is non-empty, its
\* first element is (latest candle timestamp, current price, "Current"), and its
\* timestamps are strictly increasing: a point emitted at step s carries latest +
\* s * step, time advances on every step, skipped turns included, and the loop
\* ends after exactly the step budget however many walls remain unconsumed.
C10_PathShape ==
    pc \in {"loop", "done"} =>
        /\ liq_path # <<>>
        /\ liq_path[1] = Point(LatestTime(df), last, "Current")
        /\ \A k \in 1..Len(liq_path) - 1 : liq_path[k].dt < liq_path[k + 1].dt
        /\ \A k \in 2..Len(liq_path) :
              \E st \in 1..StepsDone : liq_path[k].dt = LatestTime(df) + st * 5
        /\ Len(liq_path) > 1 /\ liq_path[Len(liq_path)].dt # LatestTime(df) + StepsDone * 5
              => \* the last completed step emitted nothing: its side was exhausted
                 IF StepsDone % 2 = 1 THEN bidx = Len(top_b) ELSE aidx = Len(top_a)
        /\ StepsDone <= 10
        /\ pc = "done" => StepsDone = 10

\* the run is over after 10 steps with bid walls left unconsumed, and a skipped
\* ask turn lies between two points of the path
C10_Witness ==
    /\ pc = "done"
    /\ bidx < Len(top_b)
    /\ aidx = Len(top_a)
    /\ \E k \in 2..Len(liq_path) - 1 : liq_path[k + 1].dt - liq_path[k].dt = 10

----------------------------------------------------------------------------
\* Properties of clean_symbol.

\* the trimmed, upper-cased input
Cleaned == Upper(Strip(raw))

\* the positions of Cleaned where "USDT" or "/" starts
CutPositions ==
    {k \in 1..Len(Cleaned) : OccursAt(Cleaned, <<"U", "S", "D", "T">>, k) \/ Cleaned[k] = "/"}

\* Cleaned up to the earliest of them
CleanedPrefix ==
    IF CutPositions = {} THEN Cleaned ELSE SubSeq(Cleaned, 1, Min(CutPositions) - 1)

\* C8: clean_symbol returns a non-empty string: the trimmed, upper-cased input
\* truncated at the first occurrence of "USDT" or "/", whichever comes first,
\* or "XRP" when that prefix is empty; the result never contains "USDT" or "/"
\* ("xrpUSDT " gives "XRP", " btc/usdt" gives "BTC", "" gives "XRP", "eth" gives
\* "ETH").
C8_CleanSymbol ==
    pc = "klines" =>
        /\ coin # <<>>
        /\ coin = IF CleanedPrefix = <<>> THEN <<"X", "R", "P">> ELSE CleanedPrefix
        /\ \A k \in 1..Len(coin) :
              coin[k] # "/" /\ ~OccursAt(coin, <<"U", "S", "D", "T">>, k)
        /\ raw = <<"x", "r", "p", "U", "S", "D", "T", " ">> => coin = <<"X", "R", "P">>
        /\ raw = <<" ", "b", "t", "c", "/", "u", "s", "d", "t">> => coin = <<"B", "T", "C">>
        /\ raw = <<>> => coin = <<"X", "R", "P">>
        /\ raw = <<"e", "t", "h">> => coin = <<"E", "T", "H">>

\* " btc/usdt" has been normalised to "BTC"
C8_Witness ==
    /\ pc = "klines"
    /\ raw = <<" ", "b", "t", "c", "/", "u", "s", "d", "t">>
    /\ coin = <<"B", "T", "C">>

====
